---- MODULE Spec2Model ----
(***************************************************************************)
(* Model of scripts/generator/generate_zed_reference.py: the pipeline      *)
(* generate_reference_yaml (fetch, clean and parse, flatten, write,        *)
(* summary) and the pure functions infer_type and flatten_settings.        *)
(*                                                                         *)
(* Python strings that the code inspects (keys, dotted paths,              *)
(* descriptions, string values) are sequences of one-character strings, so *)
(* that concatenation, replace and substring containment are computed.     *)
(* Python dicts are insertion-ordered: a dict is a sequence of items       *)
(* [k, v] with pairwise distinct keys.                                     *)
(***************************************************************************)
EXTENDS Integers, Sequences, FiniteSets

(***************************************************************************)
(* Bounds of the model.                                                    *)
(***************************************************************************)
\* largest number of keys (over all levels) of a tree of the structural family
MaxNodes == 3

(***************************************************************************)
(* Python values, as json.loads produces them, plus one shape json never   *)
(* produces ("other": an object of an unrelated class, truthy or falsy).   *)
(***************************************************************************)
PyNone == [tag |-> "NoneType"]
PyBool(b) == [tag |-> "bool", b |-> b]
PyInt(n) == [tag |-> "int", n |-> n]
\* a float, held in tenths: PyFloat(15) is 1.5
PyFloat(t) == [tag |-> "float", tenths |-> t]
PyStr(s) == [tag |-> "str", s |-> s]
PyList(elems) == [tag |-> "list", elems |-> elems]
PyDict(items) == [tag |-> "dict", items |-> items]
PyOther(truthy) == [tag |-> "other", truthy |-> truthy]

\* bool is a subclass of int in Python
Bases(tag) == IF tag = "bool" THEN {"bool", "int"} ELSE {tag}

isinstance(value, classes) == Bases(value.tag) \cap classes # {}

\* the truth value Python gives to `value` in a boolean context
Truthy(value) ==
    CASE value.tag = "NoneType" -> FALSE
      [] value.tag = "bool" -> value.b
      [] value.tag = "int" -> value.n # 0
      [] value.tag = "float" -> value.tenths # 0
      [] value.tag = "str" -> Len(value.s) > 0
      [] value.tag = "list" -> Len(value.elems) > 0
      [] value.tag = "dict" -> Len(value.items) > 0
      [] OTHER -> value.truthy

(***************************************************************************)
(* String helpers: str.__contains__, str.replace for one character.        *)
(***************************************************************************)
Contains(sub, s) ==
    \E i \in 0..(Len(s) - Len(sub)) : SubSeq(s, i + 1, i + Len(sub)) = sub

Replace(s, old, new) == [i \in 1..Len(s) |-> IF s[i] = old THEN new ELSE s[i]]

(***************************************************************************)
(* dict operations: d[k] = v, d.update(other), k in d, d[k], list(d).      *)
(***************************************************************************)
DictHas(d, k) == \E i \in 1..Len(d) : d[i].k = k

DictIndex(d, k) == CHOOSE i \in 1..Len(d) : d[i].k = k

DictGet(d, k) == d[DictIndex(d, k)].v

DictKeys(d) == [i \in 1..Len(d) |-> d[i].k]

\* d[k] = v as `del d[k]` followed by an insertion: the key moves to the end
DictSet_MovesToEnd(d, k, v) ==
    Append(SelectSeq(d, LAMBDA it : it.k # k), [k |-> k, v |-> v])

\* d[k] = v as d[k].update(v): the fields of the old value that v lacks stay
DictSet_Merges(d, k, v) ==
    IF DictHas(d, k)
    THEN LET old == DictGet(d, k)
         IN  [d EXCEPT ![DictIndex(d, k)] =
                 [k |-> k,
                  v |-> [f \in DOMAIN old \cup DOMAIN v |->
                            IF f \in DOMAIN v THEN v[f] ELSE old[f]]]]
    ELSE Append(d, [k |-> k, v |-> v])

\* d[k] = v keeps the place of a key that is already present
DictSet(d, k, v) ==
    IF DictHas(d, k)
    THEN [d EXCEPT ![DictIndex(d, k)] = [k |-> k, v |-> v]]
    ELSE Append(d, [k |-> k, v |-> v])

RECURSIVE DictUpdate(_, _)
DictUpdate(d, other) ==
    IF other = <<>> THEN d
    ELSE DictUpdate(DictSet(d, other[1].k, other[1].v), Tail(other))

(***************************************************************************)
(* infer_type                                                              *)
(***************************************************************************)
\* the chain with the numeric test ahead of the boolean test
infer_type_NumberFirst(value) ==
    IF isinstance(value, {"int", "float"}) THEN "number"
    ELSE IF isinstance(value, {"bool"}) THEN "boolean"
    ELSE IF isinstance(value, {"str"}) THEN "string"
    ELSE IF isinstance(value, {"list"}) THEN "array"
    ELSE IF isinstance(value, {"dict"}) THEN "object"
    ELSE "string"

infer_type(value) ==
    IF isinstance(value, {"bool"}) THEN "boolean"
    ELSE IF isinstance(value, {"int", "float"}) THEN "number"
    ELSE IF isinstance(value, {"str"}) THEN "string"
    ELSE IF isinstance(value, {"list"}) THEN "array"
    ELSE IF isinstance(value, {"dict"}) THEN "object"
    ELSE "string"

(***************************************************************************)
(* flatten_settings                                                        *)
(***************************************************************************)
S_mode == <<"m", "o", "d", "e">>
S_light == <<"l", "i", "g", "h", "t">>
S_dark == <<"d", "a", "r", "k">>
S_provider == <<"p", "r", "o", "v", "i", "d", "e", "r">>
S_model == <<"m", "o", "d", "e", "l">>

\* the list without its last element
SentinelKeys_NoModel == <<S_mode, S_light, S_dark, S_provider>>

\* the list literal of line 62
SentinelKeys == <<S_mode, S_light, S_dark, S_provider, S_model>>

\* any(k in [...] for k in value.keys())
HasSentinelKey(value) ==
    \E i \in 1..Len(value.items) :
        \E j \in 1..Len(SentinelKeys) : value.items[i].k = SentinelKeys[j]

\* the condition of line 62
IsNested(value) == isinstance(value, {"dict"}) /\ ~HasSentinelKey(value)

\* the path without the test of the prefix
full_key_of_AlwaysJoined(prefix, key) == prefix \o <<".">> \o key

\* f"{prefix}.{key}" if prefix else key
full_key_of(prefix, key) ==
    IF Len(prefix) > 0 THEN prefix \o <<".">> \o key ELSE key

S_ConfigurationFor ==
    <<"C", "o", "n", "f", "i", "g", "u", "r", "a", "t", "i", "o", "n", " ",
      "f", "o", "r", " ">>

description_of(full_key) ==
    S_ConfigurationFor \o Replace(Replace(full_key, "_", " "), ".", " ")

\* the chain with the git rule ahead of the font rule
category_of_GitFirst(full_key) ==
    IF Contains(<<"g", "i", "t">>, full_key) THEN "git"
    ELSE IF Contains(<<"f", "o", "n", "t">>, full_key)
       \/ Contains(<<"t", "e", "x", "t">>, full_key) THEN "font"
    ELSE IF Contains(<<"t", "h", "e", "m", "e">>, full_key)
       \/ Contains(<<"c", "o", "l", "o", "r">>, full_key)
       \/ Contains(<<"a", "p", "p", "e", "a", "r", "a", "n", "c", "e">>, full_key)
       THEN "appearance"
    ELSE IF Contains(<<"p", "a", "n", "e", "l">>, full_key)
       \/ Contains(<<"d", "o", "c", "k">>, full_key)
       \/ Contains(<<"t", "a", "b">>, full_key) THEN "ui"
    ELSE IF Contains(<<"a", "g", "e", "n", "t">>, full_key)
       \/ Contains(<<"a", "i">>, full_key) THEN "ai"
    ELSE IF Contains(<<"l", "a", "n", "g", "u", "a", "g", "e">>, full_key)
       \/ Contains(<<"l", "s", "p">>, full_key) THEN "language"
    ELSE IF Contains(<<"k", "e", "y">>, full_key)
       \/ Contains(<<"v", "i", "m">>, full_key)
       \/ Contains(<<"h", "e", "l", "i", "x">>, full_key) THEN "keybindings"
    ELSE IF Contains(<<"s", "c", "r", "o", "l", "l">>, full_key)
       \/ Contains(<<"c", "u", "r", "s", "o", "r">>, full_key) THEN "editor"
    ELSE IF Contains(<<"d", "i", "a", "g", "n", "o", "s", "t", "i", "c">>, full_key)
       THEN "diagnostics"
    ELSE IF Contains(<<"f", "o", "r", "m", "a", "t">>, full_key)
       \/ Contains(<<"i", "n", "d", "e", "n", "t">>, full_key) THEN "formatting"
    ELSE "general"

category_of(full_key) ==
    IF Contains(<<"f", "o", "n", "t">>, full_key)
       \/ Contains(<<"t", "e", "x", "t">>, full_key) THEN "font"
    ELSE IF Contains(<<"t", "h", "e", "m", "e">>, full_key)
       \/ Contains(<<"c", "o", "l", "o", "r">>, full_key)
       \/ Contains(<<"a", "p", "p", "e", "a", "r", "a", "n", "c", "e">>, full_key)
       THEN "appearance"
    ELSE IF Contains(<<"p", "a", "n", "e", "l">>, full_key)
       \/ Contains(<<"d", "o", "c", "k">>, full_key)
       \/ Contains(<<"t", "a", "b">>, full_key) THEN "ui"
    ELSE IF Contains(<<"g", "i", "t">>, full_key) THEN "git"
    ELSE IF Contains(<<"a", "g", "e", "n", "t">>, full_key)
       \/ Contains(<<"a", "i">>, full_key) THEN "ai"
    ELSE IF Contains(<<"l", "a", "n", "g", "u", "a", "g", "e">>, full_key)
       \/ Contains(<<"l", "s", "p">>, full_key) THEN "language"
    ELSE IF Contains(<<"k", "e", "y">>, full_key)
       \/ Contains(<<"v", "i", "m">>, full_key)
       \/ Contains(<<"h", "e", "l", "i", "x">>, full_key) THEN "keybindings"
    ELSE IF Contains(<<"s", "c", "r", "o", "l", "l">>, full_key)
       \/ Contains(<<"c", "u", "r", "s", "o", "r">>, full_key) THEN "editor"
    ELSE IF Contains(<<"d", "i", "a", "g", "n", "o", "s", "t", "i", "c">>, full_key)
       THEN "diagnostics"
    ELSE IF Contains(<<"f", "o", "r", "m", "a", "t">>, full_key)
       \/ Contains(<<"i", "n", "d", "e", "n", "t">>, full_key) THEN "formatting"
    ELSE "general"

\* the conditions of lines 102-108 under which default_value is set
HasDefault(setting_type, value) ==
    /\ value # PyNone
    /\ \/ setting_type = "string" /\ Truthy(value)
       \/ setting_type \in {"number", "boolean"}
       \/ setting_type = "array" /\ Truthy(value)

\* the dict stored at settings[full_key], lines 68-108
NewEntry(full_key, value) ==
    LET setting_type == infer_type(value)
    IN  IF HasDefault(setting_type, value)
        THEN [name |-> full_key, type |-> setting_type,
              description |-> description_of(full_key),
              category |-> category_of(full_key),
              default_value |-> value]
        ELSE [name |-> full_key, type |-> setting_type,
              description |-> description_of(full_key),
              category |-> category_of(full_key)]

\* obj.items() exists on a dict only
HasItems(obj) == obj.tag = "dict"

RECURSIVE flatten_settings(_, _)
RECURSIVE flatten_loop(_, _, _)
\* the for loop of lines 58-108 over the remaining `items`
flatten_loop(items, prefix, settings) ==
    IF items = <<>> THEN settings
    ELSE LET key == items[1].k
             value == items[1].v
             full_key == full_key_of(prefix, key)
         IN  IF IsNested(value)
             THEN flatten_loop(Tail(items), prefix,
                      DictUpdate(settings, flatten_settings(value, full_key).ret))
             ELSE flatten_loop(Tail(items), prefix,
                      DictSet(settings, full_key, NewEntry(full_key, value)))

\* a root without items() treated as an empty mapping
flatten_settings_Lenient(obj, prefix) ==
    IF ~HasItems(obj) THEN [ret |-> <<>>]
    ELSE [ret |-> flatten_loop(obj.items, prefix, <<>>)]

\* [ret |-> the returned dict] or [exc |-> the exception raised]
flatten_settings(obj, prefix) ==
    IF ~HasItems(obj) THEN [exc |-> "AttributeError"]
    ELSE [ret |-> flatten_loop(obj.items, prefix, <<>>)]

(***************************************************************************)
(* yaml.dump(reference, f, default_flow_style=False, sort_keys=False):     *)
(* the document as the sequence of chunks the emitter writes to the        *)
(* stream, top-level fields in the order of the dict, the entries of a     *)
(* nested mapping in the order of that mapping.                            *)
(***************************************************************************)
RECURSIVE YamlDump(_)
YamlDump(items) ==
    IF items = <<>> THEN <<>>
    ELSE LET head == items[1]
         IN  IF head.k = "settings"
             THEN <<[field |-> head.k]>>
                  \o [i \in 1..Len(head.v) |->
                         [setting |-> head.v[i].k, entry |-> head.v[i].v]]
                  \o YamlDump(Tail(items))
             ELSE <<[field |-> head.k, scalar |-> head.v]>> \o YamlDump(Tail(items))

\* the dict literal of lines 121-126
reference_of(flat) ==
    <<[k |-> "app_name", v |-> "Zed"],
      [k |-> "config_path", v |-> "~/.config/zed/settings.json"],
      [k |-> "config_type", v |-> "json"],
      [k |-> "settings", v |-> flat]>>

\* sorted() over the category labels the code can assign
SortedLabels ==
    <<"ai", "appearance", "diagnostics", "editor", "font", "formatting",
      "general", "git", "keybindings", "language", "ui">>

\* categories[cat] after the loop of lines 137-139
CategoryCount(flat, cat) ==
    Cardinality({i \in 1..Len(flat) : flat[i].v.category = cat})

RECURSIVE SummaryLines(_, _)
\* the lines printed by the loop of lines 142-143
SummaryLines(flat, labels) ==
    IF labels = <<>> THEN <<>>
    ELSE IF CategoryCount(flat, labels[1]) > 0
         THEN <<[text |-> "  {cat}: {count}", cat |-> labels[1],
                 count |-> CategoryCount(flat, labels[1])]>>
              \o SummaryLines(flat, Tail(labels))
         ELSE SummaryLines(flat, Tail(labels))

(***************************************************************************)
(* The inputs: what the URL serves, as a parsed value.                     *)
(***************************************************************************)
K_empty == <<>>
K_a == <<"a">>
K_b == <<"b">>
K_a_b == <<"a", ".", "b">>

StructKeys == {K_a, K_b, K_a_b, K_empty}

StructLeaves == {PyInt(1)}

KeysOf(items) == {items[i].k : i \in 1..Len(items)}

\* the item sequences <<[k, v]>> \o rest with a key that rest does not hold
Extend(keys, values, rests) ==
    {it \in {<<[k |-> k, v |-> v]>> \o rest :
                k \in keys, v \in values, rest \in rests} :
        it[1].k \notin KeysOf(Tail(it))}

\* the item sequences of dicts that hold exactly n keys over all levels, from
\* table[j + 1], the item sequences that hold j keys, for every j < n
Level(keys, leaves, table, n) ==
    UNION { Extend(keys,
                   IF m = 0 THEN leaves \cup {PyDict(<<>>)}
                   ELSE {PyDict(below) : below \in table[m + 1]},
                   table[n - m]) : m \in 0..(n - 1) }

RECURSIVE ItemSeqs(_, _, _, _)
\* the table of the item sequences that hold 0, 1, ..., max keys
ItemSeqs(keys, leaves, table, max) ==
    IF Len(table) > max THEN table
    ELSE ItemSeqs(keys, leaves,
                  Append(table, Level(keys, leaves, table, Len(table))), max)

\* nested trees over keys that are empty or hold a dot, up to MaxNodes keys
StructTrees ==
    LET table == ItemSeqs(StructKeys, StructLeaves, <<{<<>>}>>, MaxNodes)
    IN  UNION { {PyDict(it) : it \in table[n + 1]} : n \in 0..MaxNodes }

Dict1(k, v) == PyDict(<<[k |-> k, v |-> v]>>)
Dict2(k1, v1, k2, v2) == PyDict(<<[k |-> k1, v |-> v1], [k |-> k2, v |-> v2]>>)
Dict3(k1, v1, k2, v2, k3, v3) ==
    PyDict(<<[k |-> k1, v |-> v1], [k |-> k2, v |-> v2], [k |-> k3, v |-> v3]>>)

\* every shape of value at a leaf
AllLeaves ==
    {PyNone, PyBool(TRUE), PyBool(FALSE), PyInt(0), PyInt(14), PyFloat(0),
     PyFloat(15), PyStr(<<>>), PyStr(<<"d", "a", "r", "k">>), PyList(<<>>),
     PyList(<<PyInt(1)>>), PyOther(TRUE), PyOther(FALSE),
     Dict1(S_mode, PyStr(<<"d", "a", "r", "k">>))}

\* one setting of every shape, and two positions with the same dotted path
LeafTrees ==
    {Dict1(K_a, v) : v \in AllLeaves}
    \cup {Dict2(K_a_b, v1, K_a, Dict1(K_b, v2)) : v1, v2 \in AllLeaves}
    \cup {Dict2(K_empty, Dict1(K_a, v1), K_a, v2) : v1, v2 \in AllLeaves}
    \cup {Dict3(K_a_b, v1, K_b, PyInt(14), K_a, Dict1(K_b, v2)) :
             v1, v2 \in {PyNone, PyBool(FALSE), PyStr(<<"x">>)}}

K_theme == <<"t", "h", "e", "m", "e">>
K_size == <<"s", "i", "z", "e">>
K_Mode == <<"M", "o", "d", "e">>
K_modes == <<"m", "o", "d", "e", "s">>

InnerKeys == {S_mode, S_light, S_dark, S_provider, S_model, K_size, K_Mode, K_modes}

InnerValues == {PyStr(<<"x">>), Dict1(K_a, PyInt(1)), Dict1(S_model, PyStr(<<"x">>))}

InnerDicts ==
    {Dict1(k, v) : k \in InnerKeys, v \in InnerValues}
    \cup {Dict2(q[1], q[3], q[2], q[4]) :
             q \in {r \in InnerKeys \X InnerKeys \X InnerValues \X InnerValues :
                       r[1] # r[2]}}

\* mappings with and without sentinel keys, as the root and below it
SentinelTrees == InnerDicts \cup {Dict1(K_theme, d) : d \in InnerDicts}

CatKeys ==
    {<<"f", "o", "n", "t", "_", "s", "t", "y", "l", "e">>,
     <<"t", "e", "x", "t">>,
     <<"c", "o", "l", "o", "r", "s">>,
     <<"a", "p", "p", "e", "a", "r", "a", "n", "c", "e">>,
     <<"p", "a", "n", "e", "l">>,
     <<"d", "o", "c", "k">>,
     <<"t", "a", "b", "s">>,
     <<"g", "i", "t">>,
     <<"a", "g", "e", "n", "t">>,
     <<"m", "a", "i", "n">>,
     <<"l", "a", "n", "g", "u", "a", "g", "e", "s">>,
     <<"l", "s", "p">>,
     <<"k", "e", "y">>,
     <<"v", "i", "m", "_", "m", "o", "d", "e">>,
     <<"h", "e", "l", "i", "x">>,
     <<"s", "c", "r", "o", "l", "l">>,
     <<"c", "u", "r", "s", "o", "r">>,
     <<"d", "i", "a", "g", "n", "o", "s", "t", "i", "c", "s">>,
     <<"f", "o", "r", "m", "a", "t">>,
     <<"i", "n", "d", "e", "n", "t">>,
     <<"F", "o", "n", "t">>,
     <<"g", "i">>,
     <<"t">>,
     <<"w", "r", "a", "p">>}

\* one or two keys that the category rules match, or do not match
CatTrees ==
    {Dict1(k, PyInt(14)) : k \in CatKeys \cup {K_theme}}
    \cup {Dict1(k1, Dict1(k2, PyInt(14))) : k1, k2 \in CatKeys}

\* json.loads returns whatever the document's root is
NonMappingRoots == AllLeaves \ {v \in AllLeaves : v.tag = "dict"}

Documents == StructTrees \cup LeafTrees \cup SentinelTrees \cup CatTrees
             \cup NonMappingRoots

\* the network is down, or the URL serves text that does or does not parse
Remotes ==
    {[net |-> "down"], [net |-> "up", body |-> [parses |-> FALSE]]}
    \cup {[net |-> "up", body |-> [parses |-> TRUE, value |-> d]] : d \in Documents}

\* the output file before the run, as an earlier run left it
prior == [exists |-> TRUE, content |-> <<[field |-> "old"]>>]

(***************************************************************************)
(* generate_reference_yaml                                                 *)
(***************************************************************************)
VARIABLES
    remote,             \* what urlopen finds at the URL
    file,               \* the file at output_path
    pc,                 \* the stage to run next, "done" or "aborted"
    content,            \* the text read from the response
    default_settings,   \* the parsed tree
    flattened,          \* the flat mapping
    stdout,             \* the lines printed
    trace,              \* the stages run so far, in order
    failed,             \* the stage that raised, or "none"
    opened              \* whether open(output_path, 'w') was called

vars == <<remote, file, pc, content, default_settings, flattened,
          stdout, trace, failed, opened>>

Unset == [tag |-> "unset"]

Line(text) == [text |-> text]

Init ==
    /\ remote \in Remotes
    /\ file = prior
    /\ pc = "fetch"
    /\ content = Unset
    /\ default_settings = Unset
    /\ flattened = Unset
    /\ stdout = <<>>
    /\ trace = <<>>
    /\ failed = "none"
    /\ opened = FALSE

\* an uncaught exception in `stage` ends the run
Raise(stage) ==
    /\ pc' = "aborted"
    /\ failed' = stage

\* lines 114-115 and 10-12: urlopen, read, decode
Fetch ==
    /\ pc = "fetch"
    /\ stdout' = Append(stdout, Line("Fetching Zed default settings..."))
    /\ trace' = Append(trace, "fetch")
    /\ IF remote.net = "down"
       THEN Raise("fetch") /\ UNCHANGED content
       ELSE /\ content' = remote.body
            /\ pc' = "parse"
            /\ UNCHANGED failed
    /\ UNCHANGED <<remote, file, default_settings, flattened, opened>>

\* lines 14-37: strip comments and trailing commas, json.loads
Parse ==
    /\ pc = "parse"
    /\ trace' = Append(trace, "parse")
    /\ IF content.parses
       THEN /\ default_settings' = content.value
            /\ pc' = "flatten"
            /\ UNCHANGED failed
       ELSE Raise("parse") /\ UNCHANGED default_settings
    /\ UNCHANGED <<remote, file, content, flattened, stdout, opened>>

\* lines 117-118
Flatten ==
    /\ pc = "flatten"
    /\ stdout' = Append(stdout, Line("Flattening settings..."))
    /\ trace' = Append(trace, "flatten")
    /\ LET r == flatten_settings(default_settings, <<>>)
       IN  IF "exc" \in DOMAIN r
           THEN Raise("flatten") /\ UNCHANGED flattened
           ELSE /\ flattened' = r.ret
                /\ pc' = "write"
                /\ UNCHANGED failed
    /\ UNCHANGED <<remote, file, content, default_settings, opened>>

\* the write stage with its exceptions caught: the run goes on to the summary
Write_Continues ==
    /\ pc = "write"
    /\ trace' = Append(trace, "write")
    /\ opened' = TRUE
    /\ LET doc == YamlDump(reference_of(flattened))
       IN  \/ /\ failed' = "write" /\ pc' = "summary"
              /\ UNCHANGED file
           \/ \E n \in 0..(Len(doc) - 1) :
                 /\ file' = [exists |-> TRUE, content |-> SubSeq(doc, 1, n)]
                 /\ failed' = "write" /\ pc' = "summary"
           \/ /\ file' = [exists |-> TRUE, content |-> doc]
              /\ pc' = "summary"
              /\ UNCHANGED failed
    /\ UNCHANGED <<remote, content, default_settings, flattened, stdout>>

\* lines 120-131: open(output_path, 'w') raises and leaves the file alone, or
\* truncates the file; yaml.dump then writes the whole document, or raises
\* after it has written the first `n` chunks
Write ==
    /\ pc = "write"
    /\ trace' = Append(trace, "write")
    /\ opened' = TRUE
    /\ LET doc == YamlDump(reference_of(flattened))
       IN  \/ Raise("write") /\ UNCHANGED file
           \/ \E n \in 0..(Len(doc) - 1) :
                 /\ file' = [exists |-> TRUE, content |-> SubSeq(doc, 1, n)]
                 /\ Raise("write")
           \/ /\ file' = [exists |-> TRUE, content |-> doc]
              /\ pc' = "summary"
              /\ UNCHANGED failed
    /\ UNCHANGED <<remote, content, default_settings, flattened, stdout>>

\* lines 133-143
Summary ==
    /\ pc = "summary"
    /\ trace' = Append(trace, "summary")
    /\ stdout' = stdout
                 \o <<[text |-> "Generated {len(flattened)} settings in {output_path}",
                       count |-> Len(flattened)]>>
                 \o <<Line("\nSettings by category:")>>
                 \o SummaryLines(flattened, SortedLabels)
    /\ pc' = "done"
    /\ UNCHANGED <<remote, file, content, default_settings, flattened,
                   failed, opened>>

Next == Fetch \/ Parse \/ Flatten \/ Write \/ Summary

Spec == Init /\ [][Next]_vars

(***************************************************************************)
(* Reference definitions, written from the specification, that the         *)
(* properties compare the program with.                                    *)
(***************************************************************************)
RefSentinels == {S_mode, S_light, S_dark, S_provider, S_model}

\* a structural nesting level: a mapping none of whose keys is a sentinel
RefStructural(v) == v.tag = "dict" /\ KeysOf(v.items) \cap RefSentinels = {}

RECURSIVE RefWalk(_, _)
\* the leaf positions under `items` in depth-first key order, each with the
\* chain of its enclosing keys and its raw value
RefWalk(items, above) ==
    IF items = <<>> THEN <<>>
    ELSE LET here == Append(above, items[1].k)
         IN  (IF RefStructural(items[1].v)
              THEN RefWalk(items[1].v.items, here)
              ELSE <<[keys |-> here, value |-> items[1].v]>>)
             \o RefWalk(Tail(items), above)

RECURSIVE RefTraversedKeys(_)
\* the keys the traversal meets: those of the root and of every structural level
RefTraversedKeys(items) ==
    KeysOf(items)
    \cup UNION {IF RefStructural(items[i].v) THEN RefTraversedKeys(items[i].v.items)
                ELSE {} : i \in 1..Len(items)}

RECURSIVE JoinDots(_)
\* the enclosing keys joined with '.'
JoinDots(keys) ==
    IF Len(keys) = 1 THEN keys[1]
    ELSE keys[1] \o <<".">> \o JoinDots(Tail(keys))

RECURSIVE RefPathFrom(_, _)
RefPathFrom(prefix, keys) ==
    IF keys = <<>> THEN prefix
    ELSE RefPathFrom(IF prefix = <<>> THEN keys[1]
                     ELSE prefix \o <<".">> \o keys[1], Tail(keys))

\* the traversal rule's path: prefix + "." + key, or the key under an empty prefix
RefPath(keys) == RefPathFrom(<<>>, keys)

\* the leaf positions of the parsed tree
Visits == RefWalk(default_settings.items, <<>>)

VisitPaths == [i \in 1..Len(Visits) |-> RefPath(Visits[i].keys)]

VisitsOf(path) == {i \in 1..Len(Visits) : VisitPaths[i] = path}

\* the position visited last among those that produce `path`
LastVisit(path) ==
    Visits[CHOOSE i \in VisitsOf(path) : \A j \in VisitsOf(path) : j <= i]

RECURSIVE FirstOccurrences(_, _)
\* `seq` without the elements that repeat an element of `seen` or an earlier one
FirstOccurrences(seq, seen) ==
    IF seq = <<>> THEN <<>>
    ELSE IF seq[1] \in seen THEN FirstOccurrences(Tail(seq), seen)
         ELSE <<seq[1]>> \o FirstOccurrences(Tail(seq), seen \cup {seq[1]})

RECURSIVE SubValues(_)
\* a value and every value inside it
SubValues(v) ==
    {v} \cup (IF v.tag = "dict"
              THEN UNION {SubValues(v.items[i].v) : i \in 1..Len(v.items)}
              ELSE IF v.tag = "list"
              THEN UNION {SubValues(v.elems[i]) : i \in 1..Len(v.elems)}
              ELSE {})

\* the table of the type inference rule
RefType(v) ==
    CASE v.tag = "bool" -> "boolean"
      [] v.tag \in {"int", "float"} -> "number"
      [] v.tag = "str" -> "string"
      [] v.tag = "list" -> "array"
      [] v.tag = "dict" -> "object"
      [] OTHER -> "string"

\* the ordered table of the category rules
RefRules ==
    <<[label |-> "font", subs |-> {<<"f", "o", "n", "t">>, <<"t", "e", "x", "t">>}],
      [label |-> "appearance",
       subs |-> {<<"t", "h", "e", "m", "e">>, <<"c", "o", "l", "o", "r">>,
                 <<"a", "p", "p", "e", "a", "r", "a", "n", "c", "e">>}],
      [label |-> "ui",
       subs |-> {<<"p", "a", "n", "e", "l">>, <<"d", "o", "c", "k">>, <<"t", "a", "b">>}],
      [label |-> "git", subs |-> {<<"g", "i", "t">>}],
      [label |-> "ai", subs |-> {<<"a", "g", "e", "n", "t">>, <<"a", "i">>}],
      [label |-> "language",
       subs |-> {<<"l", "a", "n", "g", "u", "a", "g", "e">>, <<"l", "s", "p">>}],
      [label |-> "keybindings",
       subs |-> {<<"k", "e", "y">>, <<"v", "i", "m">>, <<"h", "e", "l", "i", "x">>}],
      [label |-> "editor",
       subs |-> {<<"s", "c", "r", "o", "l", "l">>, <<"c", "u", "r", "s", "o", "r">>}],
      [label |-> "diagnostics",
       subs |-> {<<"d", "i", "a", "g", "n", "o", "s", "t", "i", "c">>}],
      [label |-> "formatting",
       subs |-> {<<"f", "o", "r", "m", "a", "t">>, <<"i", "n", "d", "e", "n", "t">>}]>>

RefMatches(rule, path) == \E sub \in rule.subs : Contains(sub, path)

\* the label of the first rule that matches, "general" when none does
RefCategory(path) ==
    IF \E i \in 1..Len(RefRules) : RefMatches(RefRules[i], path)
    THEN RefRules[CHOOSE i \in 1..Len(RefRules) :
                     /\ RefMatches(RefRules[i], path)
                     /\ \A j \in 1..(i - 1) : ~RefMatches(RefRules[j], path)].label
    ELSE "general"

\* flatten_settings has returned a mapping: the run is past line 118
Flattened == pc \in {"write", "summary", "done"} \/ failed = "write"

(***************************************************************************)
(* Properties.                                                             *)
(***************************************************************************)
\* every leaf position has an entry under the join of its enclosing keys, and
\* every entry stands for one leaf position only
EachLeafOnce ==
    /\ \A i \in 1..Len(Visits) :
          Cardinality({j \in 1..Len(flattened) :
                          flattened[j].k = JoinDots(Visits[i].keys)}) = 1
    /\ \A i1, i2 \in 1..Len(Visits) :
          i1 # i2 => JoinDots(Visits[i1].keys) # JoinDots(Visits[i2].keys)
    /\ Len(flattened) = Len(Visits)

\* no traversed key is empty or holds a dot
PlainKeys ==
    \A k \in RefTraversedKeys(default_settings.items) :
        k # <<>> /\ ~Contains(<<".">>, k)

\* C1 as stated: for every tree with a mapping root, every key at a leaf
\* position appears exactly once in the flat mapping, under the enclosing keys
\* joined with '.', also when keys hold '.' or are empty.
C1_EveryInput == Flattened => EachLeafOnce

\* C1, amended: for every tree with a mapping root whose traversed keys are
\* non-empty and hold no '.', every key at a leaf position appears exactly once
\* in the flat mapping, under the enclosing keys joined with '.'.
C1_PlainKeys == (Flattened /\ PlainKeys) => EachLeafOnce

C1_Witness ==
    /\ Flattened /\ PlainKeys
    /\ Len(Visits) >= 2
    /\ \E i \in 1..Len(Visits) :
          /\ Len(Visits[i].keys) >= 2
          /\ DictHas(flattened, JoinDots(Visits[i].keys))

\* C2 as stated: an entry has no default_value when its raw value is null, an
\* empty string or an empty array, and in every other case has a default_value
\* equal to the raw value.
C2_DefaultValueRule ==
    Flattened =>
        \A j \in 1..Len(flattened) :
            LET v == LastVisit(flattened[j].k).value
                e == flattened[j].v
            IN  IF v = PyNone \/ v = PyStr(<<>>) \/ v = PyList(<<>>)
                THEN "default_value" \notin DOMAIN e
                ELSE "default_value" \in DOMAIN e /\ e.default_value = v

\* C3: a mapping without sentinel keys is recursed into and gets no entry, any
\* other value gets one entry at its path (of type object for a mapping) and its
\* descendants none: the output paths are those of the reference walker.
C3_BranchingRule ==
    Flattened =>
        /\ KeysOf(flattened) = {VisitPaths[i] : i \in 1..Len(Visits)}
        /\ Len(flattened) = Cardinality(KeysOf(flattened))
        /\ \A j \in 1..Len(flattened) :
              LastVisit(flattened[j].k).value.tag = "dict"
                  => flattened[j].v.type = "object"

C3_Witness ==
    /\ Flattened
    /\ \E i \in 1..Len(Visits) :
          /\ Len(Visits[i].keys) >= 2
          /\ Visits[i].value.tag = "dict"
          /\ \E n \in 1..Len(Visits[i].value.items) :
                Visits[i].value.items[n].k = S_model
          /\ DictGet(flattened, VisitPaths[i]).type = "object"
    /\ Len(flattened) >= 2

\* C4: the category of every entry is the label of the first rule of the
\* ordered table that matches its path, general when none matches.
C4_FirstMatchCategory ==
    Flattened =>
        \A j \in 1..Len(flattened) :
            flattened[j].v.category = RefCategory(flattened[j].k)

C4_Witness ==
    /\ Flattened
    /\ \E j \in 1..Len(flattened) :
          /\ Contains(<<"g", "i", "t">>, flattened[j].k)
          /\ Contains(<<"f", "o", "n", "t">>, flattened[j].k)
          /\ flattened[j].v.category = "font"

\* C5: infer_type gives every value the type of the table, a boolean is never
\* a number, and every entry carries the type of its raw value.
C5_InferType ==
    /\ default_settings # Unset =>
          \A v \in SubValues(default_settings) :
              /\ infer_type(v) = RefType(v)
              /\ v.tag = "bool" => infer_type(v) # "number"
    /\ Flattened =>
          \A j \in 1..Len(flattened) :
              flattened[j].v.type = RefType(LastVisit(flattened[j].k).value)

C5_Witness ==
    /\ Flattened
    /\ \E j \in 1..Len(flattened) :
          /\ LastVisit(flattened[j].k).value = PyBool(FALSE)
          /\ flattened[j].v.type = "boolean"

\* C6 as stated: when the run has ended, the output file holds the complete
\* reference document or its content of before the run.
C6_CompleteOrUntouched ==
    pc \in {"done", "aborted"} =>
        \/ file = prior
        \/ /\ Flattened
           /\ file = [exists |-> TRUE,
                      content |-> YamlDump(reference_of(flattened))]

\* C7: once the flatten stage has run, a mapping root has given a flat mapping
\* without an exception, unsupported shapes having type string, and any other
\* root has raised and given no mapping.
C7_RaisesOnlyOnRoot ==
    (default_settings # Unset /\ pc # "flatten") =>
        IF default_settings.tag = "dict"
        THEN /\ failed # "flatten"
             /\ Flattened
             /\ \A j \in 1..Len(flattened) :
                   LastVisit(flattened[j].k).value.tag = "other"
                       => flattened[j].v.type = "string"
        ELSE /\ failed = "flatten"
             /\ pc = "aborted"
             /\ ~Flattened

C7_Witness ==
    /\ default_settings # Unset
    /\ default_settings.tag = "list"
    /\ failed = "flatten"

\* C8: the keys of the flat mapping, and the entries written to the file, are
\* in the order in which a depth-first walk of the tree first meets them.
C8_TraversalOrder ==
    Flattened =>
        /\ DictKeys(flattened) = FirstOccurrences(VisitPaths, {})
        /\ pc \in {"summary", "done"} =>
              [i \in 1..Len(flattened) |-> file.content[4 + i].setting]
                  = FirstOccurrences(VisitPaths, {})

C8_Witness ==
    /\ pc = "done"
    /\ \E i1, i2, i3 \in 1..Len(Visits) :
          /\ i1 < i2 /\ i2 < i3
          /\ VisitPaths[i1] = VisitPaths[i3]
          /\ VisitPaths[i1] # VisitPaths[i2]

Stages == <<"fetch", "parse", "flatten", "write", "summary">>

\* C9: the stages run in the order fetch, parse, flatten, write, summary, each
\* at most once; a stage that fails is the last one run; the file is not opened
\* after a failure before the write stage, and nothing is printed after a
\* failed write.
C9_StagesInOrder ==
    /\ Len(trace) <= Len(Stages)
    /\ trace = SubSeq(Stages, 1, Len(trace))
    /\ (pc = "aborted") = (failed # "none")
    /\ failed # "none" => trace[Len(trace)] = failed
    /\ failed \in {"fetch", "parse", "flatten"} => ~opened /\ file = prior
    /\ failed = "write" =>
          stdout = <<Line("Fetching Zed default settings..."),
                     Line("Flattening settings...")>>
    /\ pc = "done" => trace = Stages

C9_Witness ==
    /\ failed = "write"
    /\ file # prior
    /\ Len(stdout) = 2

\* C10: a path that two positions produce has one entry, and the entry is the
\* one of the position visited last: nothing of an earlier position is left.
C10_LastVisitWins ==
    Flattened =>
        \A path \in {VisitPaths[i] : i \in 1..Len(Visits)} :
            Cardinality(VisitsOf(path)) >= 2 =>
                /\ Cardinality({j \in 1..Len(flattened) : flattened[j].k = path}) = 1
                /\ DictGet(flattened, path) = NewEntry(path, LastVisit(path).value)

C10_Witness ==
    /\ Flattened
    /\ \E i1, i2 \in 1..Len(Visits) :
          /\ i1 < i2
          /\ VisitPaths[i1] = VisitPaths[i2]
          /\ Visits[i1].value = PyInt(14)
          /\ LastVisit(VisitPaths[i1]).value = PyNone
          /\ "default_value" \notin DOMAIN DictGet(flattened, VisitPaths[i1])

====
